---------------------------- MODULE Spec2Model ----------------------------
(***************************************************************************)
(* Model of app/dashboard/data_service.py: the dashboard's data-access     *)
(* layer.  The module keeps no state between calls, so the state of the    *)
(* model is the frame of the call in progress (or of the last call): the   *)
(* operation, its arguments, what the collaborators (incident store, HTTP  *)
(* prediction service, clock) handed to it, the requests it has issued and *)
(* the value it returned or the exception that escaped it.                 *)
(*                                                                         *)
(* Optional values (Python's None) are sequences of length at most one:    *)
(* <<>> is None and <<v>> is the value v.                                  *)
(***************************************************************************)
EXTENDS Integers, Sequences, FiniteSets, TLC

VARIABLES
    op,         \* name of the operation called last ("none" before any call)
    args,       \* its arguments
    pc,         \* "idle", a position inside predict_sentiment, "returned" or "raised"
    lib,        \* whether the installed requests raises JSON errors as RequestException
    data,       \* predict_sentiment's request payload (a dict the chain rewrites)
    sent,       \* the HTTP requests issued by this call, in order
    got,        \* the outcome of each of them, in order
    store,      \* what get_incidents / get_sentiment_stats handed to this call
    now,        \* what datetime.now() handed to this call (<<>> when not read)
    ret         \* the returned value, or the name of the escaping exception

vars == <<op, args, pc, lib, data, sent, got, store, now, ret>>

None == <<>>
Some(v) == <<v>>

(***************************************************************************)
(* Bounds of the model.                                                    *)
(***************************************************************************)
MaxIncidents == 2      \* records the incident store hands out
MaxModels == 2         \* identifiers in the service's model list

(***************************************************************************)
(* HTTP collaborator: the outcomes of one requests.get / requests.post     *)
(* followed by raise_for_status() and json().                              *)
(***************************************************************************)
Texts == {"good service", "bad text"}
ModelTypes == {None, Some(""), Some("synthetic"), Some("hybrid"), Some("domain_aware")}

FallbackTag == "domain_aware (fallback to hybrid)"

PrimaryUrl == "MODEL_API_URL"
DomainUrl == "MODEL_API_URL.rstrip('/predict')/domain_predict"
CompareUrl == "MODEL_API_URL.rstrip('/predict')/compare"
ModelsUrl == "MODEL_API_URL.rstrip('/predict')/models"

\* A JSON value that is not an object (a list, a string, a number, null).
JsonNonObject == [json_array |-> "[]"]

\* Prediction bodies the service may send: with and without a model_type.
PredictionBodies ==
    {[sentiment |-> "positive", sentiment_value |-> 1, confidence |-> 9],
     [sentiment |-> "negative", sentiment_value |-> -1, confidence |-> 7,
      model_type |-> "domain_aware"],
     [sentiment |-> "positive", sentiment_value |-> 1, confidence |-> 8,
      model_type |-> "hybrid"]}

TransportFailures ==
    {[kind |-> "network", msg |-> "Connection refused"],
     [kind |-> "network", msg |-> "Read timed out"],
     [kind |-> "status", msg |-> "500 Server Error"],
     [kind |-> "status", msg |-> "404 Client Error"]}

\* A 2xx response whose body json() decodes to body.
Decoded(body) == [kind |-> "json", body |-> body]

\* A 2xx response whose body json() cannot decode.
BadJson == [kind |-> "badjson", msg |-> "Expecting value: line 1 column 1 (char 0)"]

PredictResponses ==
    TransportFailures \cup {BadJson}
        \cup {Decoded(b) : b \in PredictionBodies \cup {JsonNonObject}}

\* requests.exceptions.RequestException is what every handler of the HTTP
\* operations catches: ConnectionError/Timeout, HTTPError from
\* raise_for_status(), and json()'s JSONDecodeError where the library derives
\* it from RequestException (lib = TRUE).
RaisesRequestException(r, l) ==
    \/ r.kind \in {"network", "status"}
    \/ r.kind = "badjson" /\ l

Idle == pc = "idle"

NoStore == [read |-> "none"]

Init ==
    /\ op = "none"
    /\ args = [none |-> TRUE]
    /\ pc = "idle"
    /\ lib = FALSE
    /\ data = [none |-> TRUE]
    /\ sent = <<>>
    /\ got = <<>>
    /\ store = NoStore
    /\ now = None
    /\ ret = [none |-> TRUE]

\* The call is over: its frame is dropped, the module keeps nothing of it.
Return ==
    /\ pc \in {"returned", "raised"}
    /\ op' = "none"
    /\ args' = [none |-> TRUE]
    /\ pc' = "idle"
    /\ lib' = FALSE
    /\ data' = [none |-> TRUE]
    /\ sent' = <<>>
    /\ got' = <<>>
    /\ store' = NoStore
    /\ now' = None
    /\ ret' = [none |-> TRUE]

(***************************************************************************)
(* predict_sentiment(text, model_type=None, store_for_feedback=False)      *)
(***************************************************************************)
Truthy(opt) == opt # None /\ opt # Some("")

\* lines 133-140: the payload; model_type is added only when truthy.
Payload(text, model_type, sff) ==
    IF Truthy(model_type)
    THEN [text |-> text, model_type |-> model_type[1], store_for_feedback |-> sff]
    ELSE [text |-> text, store_for_feedback |-> sff]

\* lines 196-205: the synthetic result of the outer handler.
SyntheticResult(text, model_type, msg) ==
    [sentiment |-> "neutral",
     sentiment_value |-> 0,
     confidence |-> 0,
     text |-> text,
     model_type |-> IF Truthy(model_type) THEN model_type[1] ELSE "unknown",
     error |-> msg]

PredictStart(text, model_type, sff) ==
    /\ Idle
    /\ op' = "predict_sentiment"
    /\ args' = [text |-> text, model_type |-> model_type, store_for_feedback |-> sff]
    /\ lib' \in BOOLEAN
    /\ data' = Payload(text, model_type, sff)
    /\ sent' = <<>>
    /\ got' = <<>>
    /\ store' = NoStore
    /\ now' = None
    /\ ret' = [none |-> TRUE]
    /\ pc' = IF model_type = Some("domain_aware") THEN "tier1" ELSE "single"

\* One blocking requests.post(url, json=data) and its outcome r.
Post(url, payload, r) ==
    /\ sent' = Append(sent, [url |-> url, data |-> payload])
    /\ got' = Append(got, r)

\* Mutant of PredictOuter: the synthetic result reports the payload's model
\* type (the rewritten "hybrid") instead of the requested one.
PredictOuterReportsPayloadType(r) ==
    IF RaisesRequestException(r, lib)
    THEN /\ pc' = "returned"
         /\ ret' = SyntheticResult(args.text,
                       IF "model_type" \in DOMAIN data THEN Some(data.model_type) ELSE None,
                       r.msg)
    ELSE /\ pc' = "raised"
         /\ ret' = [exception |-> "ValueError", msg |-> r.msg]

\* An exception reaching the outer handler of predict_sentiment (line 196):
\* a RequestException becomes the synthetic result, anything else escapes.
PredictOuter(r) ==
    IF RaisesRequestException(r, lib)
    THEN /\ pc' = "returned"
         /\ ret' = SyntheticResult(args.text, args.model_type, r.msg)
    ELSE /\ pc' = "raised"
         /\ ret' = [exception |-> "ValueError", msg |-> r.msg]

\* lines 147-156: first tier, the primary endpoint with model_type domain_aware.
PostPrimary(r) ==
    /\ pc = "tier1"
    /\ Post(PrimaryUrl, data, r)
    /\ IF r.kind = "json"
       THEN pc' = "returned" /\ ret' = r.body
       ELSE IF RaisesRequestException(r, lib)
            THEN pc' = "tier2" /\ ret' = ret
            ELSE PredictOuter(r)
    /\ UNCHANGED <<op, args, lib, data, store, now>>

\* Mutant of PostDomain: the second tier posts to the primary endpoint again.
PostDomainToPrimary(r) ==
    /\ pc = "tier2"
    /\ Post(PrimaryUrl, data, r)
    /\ IF r.kind = "json"
       THEN pc' = "returned" /\ ret' = r.body /\ data' = data
       ELSE IF RaisesRequestException(r, lib)
            THEN pc' = "tier3" /\ ret' = ret
                 /\ data' = [data EXCEPT !.model_type = "hybrid"]
            ELSE PredictOuter(r) /\ data' = data
    /\ UNCHANGED <<op, args, lib, store, now>>

\* lines 160-169: second tier, the dedicated endpoint, same payload.
PostDomain(r) ==
    /\ pc = "tier2"
    /\ Post(DomainUrl, data, r)
    /\ IF r.kind = "json"
       THEN pc' = "returned" /\ ret' = r.body /\ data' = data
       ELSE IF RaisesRequestException(r, lib)
            THEN pc' = "tier3" /\ ret' = ret
                 /\ data' = [data EXCEPT !.model_type = "hybrid"]
            ELSE PredictOuter(r) /\ data' = data
    /\ UNCHANGED <<op, args, lib, store, now>>

\* Mutant of TagFallback: the hybrid result is returned untagged.
TagFallbackOmitted(body) == body

\* line 182: result["model_type"] = tag; a TypeError on a non-object body.
TagFallback(body) == ("model_type" :> FallbackTag) @@ body

\* lines 173-182: third tier, the primary endpoint with model_type hybrid.
PostHybrid(r) ==
    /\ pc = "tier3"
    /\ Post(PrimaryUrl, data, r)
    /\ IF r.kind = "json"
       THEN IF r.body = JsonNonObject
            THEN /\ pc' = "raised"
                 /\ ret' = [exception |-> "TypeError",
                            msg |-> "list indices must be integers"]
            ELSE pc' = "returned" /\ ret' = TagFallback(r.body)
       ELSE PredictOuter(r)
    /\ UNCHANGED <<op, args, lib, data, store, now>>

\* lines 184-192: any other model type, one POST to the primary endpoint.
PostSingle(r) ==
    /\ pc = "single"
    /\ Post(PrimaryUrl, data, r)
    /\ IF r.kind = "json"
       THEN pc' = "returned" /\ ret' = r.body
       ELSE PredictOuter(r)
    /\ UNCHANGED <<op, args, lib, data, store, now>>

PredictSentiment ==
    \/ \E t \in Texts, m \in ModelTypes, s \in BOOLEAN : PredictStart(t, m, s)
    \/ \E r \in PredictResponses : PostPrimary(r)
    \/ \E r \in PredictResponses : PostDomain(r)
    \/ \E r \in PredictResponses : PostHybrid(r)
    \/ \E r \in PredictResponses : PostSingle(r)

(***************************************************************************)
(* get_available_models()                                                  *)
(***************************************************************************)
ServiceModels == {"synthetic", "hybrid", "domain_aware"}

ModelLists == UNION {[1..n -> ServiceModels] : n \in 0..MaxModels}

\* Bodies of the listing endpoint: {"models": [...]}, an object without the
\* key, {"models": null}, and a JSON value that is no object.
ModelsBodies ==
    {[models |-> [type |-> "list", items |-> l]] : l \in ModelLists}
        \cup {[count |-> 0], [models |-> [type |-> "null"]], JsonNonObject}

ModelsResponses ==
    TransportFailures \cup {BadJson} \cup {Decoded(b) : b \in ModelsBodies}

Contains(seq, x) == \E i \in 1..Len(seq) : seq[i] = x

\* Mutant of EnsureDomainAware: the service's list is returned as it came.
EnsureDomainAwareOmitted(models) == models

\* lines 109-111: append "domain_aware" unless the list holds it.
EnsureDomainAware(models) ==
    IF ~Contains(models, "domain_aware") THEN Append(models, "domain_aware") ELSE models

\* lines 106-114 on a decoded body: the list returned, or the error escaping
\* (only RequestException is caught, line 115).
ModelsFromBody(body) ==
    IF body = JsonNonObject
    THEN [pc |-> "raised",
          ret |-> [exception |-> "AttributeError",
                   msg |-> "'list' object has no attribute 'get'"]]
    ELSE IF "models" \notin DOMAIN body
    THEN [pc |-> "returned", ret |-> EnsureDomainAware(<<>>)]
    ELSE IF body.models.type = "null"
    THEN [pc |-> "raised",
          ret |-> [exception |-> "TypeError",
                   msg |-> "argument of type 'NoneType' is not iterable"]]
    ELSE [pc |-> "returned", ret |-> EnsureDomainAware(body.models.items)]

\* line 118: the static fallback list.
DefaultModels == <<"synthetic", "domain_aware">>

\* A call that completes in one step: the frame it leaves behind.
Frame(name, a, l, requests, outcomes, st, clock, outcome) ==
    /\ op' = name
    /\ args' = a
    /\ lib' = l
    /\ data' = [none |-> TRUE]
    /\ sent' = requests
    /\ got' = outcomes
    /\ store' = st
    /\ now' = clock
    /\ pc' = outcome.pc
    /\ ret' = outcome.ret

GetAvailableModels(r, l) ==
    /\ Frame("get_available_models", [none |-> TRUE], l,
             <<[url |-> ModelsUrl, method |-> "GET"]>>, <<r>>, NoStore, None,
             IF r.kind = "json"
             THEN ModelsFromBody(r.body)
             ELSE IF RaisesRequestException(r, l)
             THEN [pc |-> "returned", ret |-> DefaultModels]
             ELSE [pc |-> "raised", ret |-> [exception |-> "ValueError", msg |-> r.msg]])

(***************************************************************************)
(* compare_models(text)                                                    *)
(***************************************************************************)
CompareBodies ==
    {[text |-> t, models |-> "per-model results", count |-> 2] : t \in Texts}
        \cup {JsonNonObject}

CompareResponses ==
    TransportFailures \cup {BadJson} \cup {Decoded(b) : b \in CompareBodies}

\* lines 229-234
CompareFailure(text, msg) ==
    [text |-> text, models |-> "{}", count |-> 0, error |-> msg]

CompareModels(text, r, l) ==
    /\ Frame("compare_models", [text |-> text], l,
             <<[url |-> CompareUrl, data |-> [text |-> text]]>>, <<r>>, NoStore, None,
             IF r.kind = "json"
             THEN [pc |-> "returned", ret |-> r.body]
             ELSE IF RaisesRequestException(r, l)
             THEN [pc |-> "returned", ret |-> CompareFailure(text, r.msg)]
             ELSE [pc |-> "raised", ret |-> [exception |-> "ValueError", msg |-> r.msg]])

(***************************************************************************)
(* Calendar arithmetic of datetime / timedelta (proleptic Gregorian).      *)
(***************************************************************************)
Date(y, m, d) == [year |-> y, month |-> m, day |-> d]
Timestamp(y, m, d, hh, mm) == [year |-> y, month |-> m, day |-> d, hour |-> hh, minute |-> mm]

IsLeap(y) == y % 4 = 0 /\ (y % 100 # 0 \/ y % 400 = 0)

DaysInMonth(y, m) ==
    IF m = 2 THEN (IF IsLeap(y) THEN 29 ELSE 28)
    ELSE IF m \in {4, 6, 9, 11} THEN 30 ELSE 31

DaysBeforeYear(y) ==
    (y - 1) * 365 + ((y - 1) \div 4) - ((y - 1) \div 100) + ((y - 1) \div 400)

RECURSIVE DaysBeforeMonth(_, _)
DaysBeforeMonth(y, m) ==
    IF m = 1 THEN 0 ELSE DaysBeforeMonth(y, m - 1) + DaysInMonth(y, m - 1)

\* date.toordinal()
ToOrdinal(d) == DaysBeforeYear(d.year) + DaysBeforeMonth(d.year, d.month) + d.day

CalendarYears == 2021..2026

\* date.fromordinal(n), for the years the model's dates fall in.
FromOrdinal(n) ==
    LET y == CHOOSE yy \in CalendarYears :
                 DaysBeforeYear(yy) < n /\ n <= DaysBeforeYear(yy + 1)
        rest == n - DaysBeforeYear(y)
        m == CHOOSE mm \in 1..12 :
                 DaysBeforeMonth(y, mm) < rest
                     /\ rest <= DaysBeforeMonth(y, mm) + DaysInMonth(y, mm)
    IN  Date(y, m, rest - DaysBeforeMonth(y, m))

\* date - timedelta(days=n)
MinusDays(d, n) == FromOrdinal(ToOrdinal(d) - n)

\* Mutant of DateGE: the comparison is strict.
DateGT(a, b) ==
    \/ a.year > b.year
    \/ a.year = b.year /\ a.month > b.month
    \/ a.year = b.year /\ a.month = b.month /\ a.day > b.day

\* date >= date
DateGE(a, b) ==
    \/ a.year > b.year
    \/ a.year = b.year /\ a.month > b.month
    \/ a.year = b.year /\ a.month = b.month /\ a.day >= b.day

\* The integers of a finite set in ascending order.
RECURSIVE SortInts(_)
SortInts(S) ==
    IF S = {} THEN <<>>
    ELSE LET least == CHOOSE x \in S : \A z \in S : x <= z
         IN  <<least>> \o SortInts(S \ {least})

Range(seq) == {seq[i] : i \in 1..Len(seq)}

Min(a, b) == IF a <= b THEN a ELSE b

(***************************************************************************)
(* Incident store collaborator (app.data.database).                        *)
(***************************************************************************)
Timestamps ==
    {Timestamp(2024, 2, 28, 23, 59), Timestamp(2024, 2, 29, 8, 5),
     Timestamp(2023, 2, 28, 12, 0), Timestamp(2023, 12, 31, 0, 0),
     Timestamp(2024, 4, 30, 12, 0)}

\* sentiment: 1, 0, -1, an unrecognised code, or null.
RawSentiments == {Some(1), Some(0), Some(-1), Some(2), None}

RawIncidents == [timestamp : Timestamps, sentiment : RawSentiments]

IncidentLists == UNION {[1..n -> RawIncidents] : n \in 0..MaxIncidents}

\* What a read of the incident store gives a call: the records held, or an
\* error (connection failure, malformed data).
IncidentStores ==
    {[read |-> "error"]} \cup {[read |-> "ok", records |-> l] : l \in IncidentLists}

\* get_incidents(limit): at most limit records.
get_incidents(records, limit) == SubSeq(records, 1, Min(limit, Len(records)))

Todays == {Date(2024, 2, 29), Date(2024, 3, 1)}

(***************************************************************************)
(* get_incidents_from_db(limit=100)                                        *)
(***************************************************************************)
\* pd.DataFrame(): no columns, no rows.
EmptyFrame == [columns |-> <<>>, rows |-> <<>>]

\* Mutant of SentimentLabel: the null entry of the map is missing and the
\* default is the neutral label.
SentimentLabelDefaultNeutral(sentiment) ==
    IF sentiment = None THEN "neutral"
    ELSE CASE sentiment[1] = 1 -> "positive"
           [] sentiment[1] = 0 -> "neutral"
           [] sentiment[1] = -1 -> "negative"
           [] OTHER -> "neutral"

\* lines 68-69: sentiment_map.get(x, 'not analyzed')
SentimentLabel(sentiment) ==
    IF sentiment = None THEN "not analyzed"
    ELSE CASE sentiment[1] = 1 -> "positive"
           [] sentiment[1] = 0 -> "neutral"
           [] sentiment[1] = -1 -> "negative"
           [] OTHER -> "not analyzed"

\* line 65: df['timestamp'].dt.date
DateOf(ts) == Date(ts.year, ts.month, ts.day)

IncidentColumns == <<"timestamp", "sentiment", "date", "sentiment_label">>

\* lines 58-79
IncidentsFromDb(st, limit) ==
    IF st.read = "error" THEN EmptyFrame
    ELSE LET incidents == get_incidents(st.records, limit)
         IN  IF Len(incidents) = 0 THEN EmptyFrame
             ELSE [columns |-> IncidentColumns,
                   rows |-> [i \in 1..Len(incidents) |->
                       [timestamp |-> incidents[i].timestamp,
                        sentiment |-> incidents[i].sentiment,
                        date |-> DateOf(incidents[i].timestamp),
                        sentiment_label |-> SentimentLabel(incidents[i].sentiment)]]]

Limits == {1, 2, 100}

GetIncidentsFromDb(limit, st) ==
    /\ Frame("get_incidents_from_db", [limit |-> limit], FALSE, <<>>, <<>>, st, None,
             [pc |-> "returned", ret |-> IncidentsFromDb(st, limit)])

(***************************************************************************)
(* get_sentiment_statistics()                                              *)
(***************************************************************************)
StatsReads ==
    {[read |-> "error"],
     [read |-> "ok", stats |-> [positive |-> 2, neutral |-> 1, negative |-> 0, total |-> 3]],
     [read |-> "ok", stats |-> [positive |-> 1, neutral |-> 0, negative |-> 1, total |-> 5]]}

\* line 94
ZeroStats == [positive |-> 0, neutral |-> 0, negative |-> 0, total |-> 0]

GetSentimentStatistics(st) ==
    /\ Frame("get_sentiment_statistics", [none |-> TRUE], FALSE, <<>>, <<>>, st, None,
             [pc |-> "returned", ret |-> IF st.read = "ok" THEN st.stats ELSE ZeroStats])

(***************************************************************************)
(* groupby(...).size() and pivot(...).fillna(0), shared by both            *)
(* aggregations.                                                           *)
(***************************************************************************)
\* groupby([key, 'sentiment_label']).size().reset_index(name='count'):
\* one long-form row per (key, label) pair that occurs.
GroupSize(rows, key) ==
    {[index |-> rows[i][key], label |-> rows[i].sentiment_label,
      count |-> Cardinality({j \in 1..Len(rows) :
                    /\ rows[j][key] = rows[i][key]
                    /\ rows[j].sentiment_label = rows[i].sentiment_label})]
        : i \in 1..Len(rows)}

\* pivot(...).fillna(0): the cell of index value x and column label.
PivotCell(long, x, label) ==
    IF \E g \in long : g.index = x /\ g.label = label
    THEN (CHOOSE g \in long : g.index = x /\ g.label = label).count
    ELSE 0

\* The label columns of the pivot, in sorted order.
SortedLabels == <<"negative", "neutral", "not analyzed", "positive">>

PivotColumns(long) ==
    SelectSeq(SortedLabels, LAMBDA l : \E g \in long : g.label = l)

\* "Ensure all sentiment labels exist": the missing ones are appended as 0.
WithLabels(columns, wanted) ==
    columns \o SelectSeq(wanted, LAMBDA l : ~Contains(columns, l))

(***************************************************************************)
(* get_sentiment_over_time(days=30)                                        *)
(***************************************************************************)
AllLabels == <<"positive", "neutral", "negative", "not analyzed">>

\* lines 248-274 (the handler of line 276 has nothing to catch here)
SentimentOverTime(st, today, days) ==
    LET df == IncidentsFromDb(st, 1000)
    IN  IF df.rows = <<>> THEN EmptyFrame
        ELSE LET start_date == MinusDays(today, days)
                 filtered == SelectSeq(df.rows, LAMBDA r : DateGE(r.date, start_date))
                 long == GroupSize(filtered, "date")
                 dates == {g.index : g \in long}
                 ordinals == SortInts({ToOrdinal(d) : d \in dates})
                 labels == WithLabels(PivotColumns(long), AllLabels)
             IN  [columns |-> <<"date">> \o labels,
                  rows |-> [i \in 1..Len(ordinals) |->
                      LET d == CHOOSE x \in dates : ToOrdinal(x) = ordinals[i]
                      IN  [c \in {"date"} \cup Range(labels) |->
                              IF c = "date" THEN d ELSE PivotCell(long, d, c)]]]

Days == {0, 1, 62, 400}

GetSentimentOverTime(days, st, clock) ==
    /\ Frame("get_sentiment_over_time", [days |-> days], FALSE, <<>>, <<>>, st,
             IF st.read = "ok" /\ st.records # <<>> THEN Some(clock) ELSE None,
             [pc |-> "returned", ret |-> SentimentOverTime(st, clock, days)])

(***************************************************************************)
(* get_recent_incidents(limit=10)                                          *)
(***************************************************************************)
\* Timestamps compare as instants.
Instant(ts) == (ToOrdinal(DateOf(ts)) * 24 + ts.hour) * 60 + ts.minute

\* strftime('%Y-%m-%d %H:%M'): the fields the string shows, in its order.
FormattedTime(ts) == <<ts.year, ts.month, ts.day, ts.hour, ts.minute>>

\* order is an order sort_values('timestamp', ascending=False) may put rows in
\* (pandas' default sort is not stable: rows of equal timestamp come in any order).
IsDescendingOrder(order, rows) ==
    /\ Len(order) = Len(rows)
    /\ Range(order) = 1..Len(rows)
    /\ \A i \in 1..(Len(order) - 1) :
          Instant(rows[order[i]].timestamp) >= Instant(rows[order[i + 1]].timestamp)

\* lines 291-302
RecentIncidents(st, limit, order) ==
    LET df == IncidentsFromDb(st, limit)
    IN  IF df.rows = <<>> THEN EmptyFrame
        ELSE LET sorted == [i \in 1..Len(order) |-> df.rows[order[i]]]
                 head == SubSeq(sorted, 1, Min(limit, Len(sorted)))
             IN  [columns |-> IncidentColumns \o <<"formatted_time">>,
                  rows |-> [i \in 1..Len(head) |->
                      [timestamp |-> head[i].timestamp,
                       sentiment |-> head[i].sentiment,
                       date |-> head[i].date,
                       sentiment_label |-> head[i].sentiment_label,
                       formatted_time |-> FormattedTime(head[i].timestamp)]]]

Orders == UNION {[1..n -> 1..n] : n \in 0..MaxIncidents}

GetRecentIncidents(limit, st, order) ==
    /\ IsDescendingOrder(order, IncidentsFromDb(st, limit).rows)
    /\ Frame("get_recent_incidents", [limit |-> limit], FALSE, <<>>, <<>>, st, None,
             [pc |-> "returned", ret |-> RecentIncidents(st, limit, order)])

(***************************************************************************)
(* get_sentiment_by_day_of_month(month=None, year=None)                    *)
(***************************************************************************)
MonthColumns == <<"day", "positive", "neutral", "negative">>

\* lines 338 and 376: no rows, the four columns.
EmptyMonthFrame == [columns |-> MonthColumns, rows |-> <<>>]

\* Mutant of days_in_month: the day before the first of the month itself,
\* that is the length of the previous month.
days_in_month_of_previous(year, month) ==
    IF month < 12 THEN MinusDays(Date(year, month, 1), 1).day ELSE 31

\* line 365: (datetime(year, month % 12 + 1, 1) - timedelta(days=1)).day
\*           if month < 12 else 31
days_in_month(year, month) ==
    IF month < 12 THEN MinusDays(Date(year, (month % 12) + 1, 1), 1).day ELSE 31

\* lines 344-362: group by (day, label), pivot, keep positive/neutral/negative
\* (0 where the pivot has no such column), day back as a column.
MonthPivot(rows) ==
    LET long == GroupSize(rows, "day")
        days == SortInts({g.index : g \in long})
    IN  [i \in 1..Len(days) |->
            [day |-> days[i],
             positive |-> PivotCell(long, days[i], "positive"),
             neutral |-> PivotCell(long, days[i], "neutral"),
             negative |-> PivotCell(long, days[i], "negative")]]

\* lines 366-369: pd.merge(all_days, pivot_table, on='day', how='left').fillna(0)
MergeAllDays(n, pivot) ==
    [d \in 1..n |->
        IF \E i \in 1..Len(pivot) : pivot[i].day = d
        THEN pivot[CHOOSE i \in 1..Len(pivot) : pivot[i].day = d]
        ELSE [day |-> d, positive |-> 0, neutral |-> 0, negative |-> 0]]

\* Mutant of SentimentByDayOfMonth: the incidents are filtered by month only.
SentimentByDayOfMonthAnyYear(st, clock, month, year) ==
    LET m == IF month = None THEN clock[1].month ELSE month[1]
        y == IF year = None THEN clock[1].year ELSE year[1]
        df == IncidentsFromDb(st, 10000)
    IN  IF df.rows = <<>> THEN EmptyFrame
        ELSE LET filtered == SelectSeq(df.rows, LAMBDA r : r.timestamp.month = m)
             IN  IF filtered = <<>> THEN EmptyMonthFrame
                 ELSE LET withDay == [i \in 1..Len(filtered) |->
                                         [day |-> filtered[i].timestamp.day,
                                          sentiment_label |-> filtered[i].sentiment_label]]
                      IN  [columns |-> MonthColumns,
                           rows |-> MergeAllDays(days_in_month(y, m), MonthPivot(withDay))]

\* lines 321-372 (the handler of line 374 has nothing to catch here)
SentimentByDayOfMonth(st, clock, month, year) ==
    LET m == IF month = None THEN clock[1].month ELSE month[1]
        y == IF year = None THEN clock[1].year ELSE year[1]
        df == IncidentsFromDb(st, 10000)
    IN  IF df.rows = <<>> THEN EmptyFrame
        ELSE LET filtered == SelectSeq(df.rows,
                                 LAMBDA r : r.timestamp.month = m /\ r.timestamp.year = y)
             IN  IF filtered = <<>> THEN EmptyMonthFrame
                 ELSE LET withDay == [i \in 1..Len(filtered) |->
                                         [day |-> filtered[i].timestamp.day,
                                          sentiment_label |-> filtered[i].sentiment_label]]
                      IN  [columns |-> MonthColumns,
                           rows |-> MergeAllDays(days_in_month(y, m), MonthPivot(withDay))]

Months == 1..12
Years == {2023, 2024}

\* The (month, year) arguments tried, each with what datetime.now() gives the
\* call: every month of the years (the clock is not read), and the defaults.
MonthArgs ==
    {<<Some(m), Some(y), None>> : m \in Months, y \in Years}
        \cup {<<None, None, Some(t)>> : t \in Todays}

\* clock is read (lines 321-324) only for an argument left out.
GetSentimentByDayOfMonth(month, year, st, clock) ==
    /\ (clock # None) <=> (month = None \/ year = None)
    /\ Frame("get_sentiment_by_day_of_month", [month |-> month, year |-> year],
             FALSE, <<>>, <<>>, st, clock,
             [pc |-> "returned", ret |-> SentimentByDayOfMonth(st, clock, month, year)])

NextTables ==
    \/ Idle /\ \E limit \in Limits, st \in IncidentStores : GetIncidentsFromDb(limit, st)
    \/ Idle /\ \E st \in StatsReads : GetSentimentStatistics(st)
    \/ Idle /\ \E days \in Days, st \in IncidentStores, clock \in Todays :
                  GetSentimentOverTime(days, st, clock)
    \/ Idle /\ \E limit \in Limits, st \in IncidentStores, order \in Orders :
                  GetRecentIncidents(limit, st, order)
    \/ Idle /\ \E a \in MonthArgs, st \in IncidentStores :
                  GetSentimentByDayOfMonth(a[1], a[2], st, a[3])
    \/ Return

SpecTables == Init /\ [][NextTables]_vars

NextApi ==
    \/ Idle /\ \E r \in ModelsResponses, l \in BOOLEAN : GetAvailableModels(r, l)
    \/ Idle /\ \E t \in Texts, r \in CompareResponses, l \in BOOLEAN : CompareModels(t, r, l)
    \/ PredictSentiment
    \/ Return

SpecApi == Init /\ [][NextApi]_vars

Next == NextApi \/ NextTables

Spec == Init /\ [][Next]_vars

(***************************************************************************)
(* Claims about the HTTP operations, checked under SpecApi.                *)
(***************************************************************************)
IsPredict == op = "predict_sentiment"
DomainAwareCall == IsPredict /\ args.model_type = Some("domain_aware")
HttpFailed(r) == r.kind \in {"network", "status"}

\* The request tier i of the domain_aware chain must carry.
ChainRequest(i) ==
    [url |-> IF i = 2 THEN DomainUrl ELSE PrimaryUrl,
     data |-> [text |-> args.text,
               model_type |-> IF i = 3 THEN "hybrid" ELSE "domain_aware",
               store_for_feedback |-> args.store_for_feedback]]

\* The order, payloads and bound of the requests of one predict_sentiment call,
\* leaving open what makes a tier give way to the next.
ChainShape ==
    /\ DomainAwareCall =>
        /\ Len(sent) <= 3
        /\ \A i \in 1..Len(sent) : sent[i] = ChainRequest(i)
        /\ \A i \in 1..(Len(sent) - 1) : got[i].kind # "json"
        /\ pc \in {"returned", "raised"} => Len(sent) >= 1
    /\ IsPredict /\ ~DomainAwareCall =>
        /\ Len(sent) <= 1
        /\ pc \in {"returned", "raised"} =>
              /\ Len(sent) = 1
              /\ sent[1].url = PrimaryUrl
              /\ sent[1].data.text = args.text
              /\ sent[1].data.store_for_feedback = args.store_for_feedback
              /\ IF Truthy(args.model_type)
                 THEN sent[1].data.model_type = args.model_type[1]
                 ELSE "model_type" \notin DOMAIN sent[1].data

\* C1 as stated: in predict_sentiment with model_type "domain_aware" the POSTs
\* go primary(domain_aware), domain endpoint (same payload), primary(hybrid);
\* a tier is attempted only if the previous tier's HTTP call failed by a network
\* error or a non-2xx status; nothing is sent after a success; at most three
\* requests; any other model type sends exactly one POST to the primary endpoint.
C1_OnlyAfterHttpFailure ==
    /\ ChainShape
    /\ DomainAwareCall => \A i \in 2..Len(sent) : HttpFailed(got[i - 1])

\* C1 amended: the same order, payloads and bounds, but a tier is attempted
\* exactly when the previous tier raised a RequestException: a network error, a
\* non-2xx status, or a 2xx response whose body is not JSON where the installed
\* requests library reports that as a RequestException.
C1_ChainOrder ==
    /\ ChainShape
    /\ DomainAwareCall =>
        /\ \A i \in 2..Len(sent) : RaisesRequestException(got[i - 1], lib)
        /\ pc \in {"returned", "raised"} /\ Len(sent) < 3 =>
              ~RaisesRequestException(got[Len(sent)], lib)

C1_Witness ==
    /\ DomainAwareCall /\ pc = "returned"
    /\ Len(sent) = 3
    /\ HttpFailed(got[1]) /\ HttpFailed(got[2]) /\ got[3].kind = "json"

\* C2: with model_type "domain_aware", primary failed and domain succeeded:
\* the result is the domain endpoint's body, model_type untouched; primary and
\* domain failed and hybrid succeeded: model_type is exactly the fallback tag,
\* the rest of the body as served; the tag is in a returned result only then.
C2_FallbackTag ==
    IsPredict /\ pc = "returned" =>
        /\ DomainAwareCall /\ Len(got) = 2 /\ got[2].kind = "json" => ret = got[2].body
        /\ DomainAwareCall /\ Len(got) = 3 /\ got[3].kind = "json" =>
              /\ DOMAIN ret = DOMAIN got[3].body \cup {"model_type"}
              /\ ret.model_type = FallbackTag
              /\ \A k \in DOMAIN got[3].body \ {"model_type"} : ret[k] = got[3].body[k]
        /\ ("model_type" \in DOMAIN ret /\ ret.model_type = FallbackTag) =>
              /\ DomainAwareCall
              /\ Len(got) = 3
              /\ got[1].kind # "json" /\ got[2].kind # "json" /\ got[3].kind = "json"

C2_Witness ==
    /\ DomainAwareCall /\ pc = "returned" /\ Len(got) = 3
    /\ got[3].kind = "json" /\ "model_type" \in DOMAIN got[3].body
    /\ got[3].body.model_type = "hybrid"
    /\ ret.model_type = FallbackTag

\* C3: when every attempt of the applicable chain fails (three for
\* "domain_aware", one otherwise) the call returns sentiment "neutral",
\* sentiment_value 0, confidence 0.0, the input text, the requested model type
\* ("domain_aware", not "hybrid"; "unknown" when none) and the last failure's
\* message as error.
C3_SyntheticResult ==
    (/\ IsPredict
     /\ Len(got) = (IF DomainAwareCall THEN 3 ELSE 1)
     /\ \A i \in 1..Len(got) : RaisesRequestException(got[i], lib))
    => /\ pc = "returned"
       /\ ret = [sentiment |-> "neutral", sentiment_value |-> 0, confidence |-> 0,
                 text |-> args.text,
                 model_type |-> IF args.model_type \in {None, Some("")}
                                THEN "unknown" ELSE args.model_type[1],
                 error |-> got[Len(got)].msg]

C3_Witness ==
    /\ DomainAwareCall /\ pc = "returned" /\ Len(got) = 3
    /\ \A i \in 1..3 : HttpFailed(got[i])
    /\ got[3].msg # got[1].msg /\ got[3].msg # got[2].msg
    /\ ret.error = got[3].msg /\ ret.model_type = "domain_aware"

\* C5: get_available_models() always has "domain_aware" in its result: on a
\* successful listing the service's list with "domain_aware" appended iff it
\* was absent, on a failed request exactly ["synthetic", "domain_aware"].
C5_ModelsIncludeDomainAware ==
    op = "get_available_models" =>
        LET r == got[1]
            listed == IF "models" \in DOMAIN r.body THEN r.body.models.items ELSE <<>>
            present == \E i \in 1..Len(listed) : listed[i] = "domain_aware"
        IN  /\ pc = "returned" => \E i \in 1..Len(ret) : ret[i] = "domain_aware"
            /\ (r.kind = "json" /\ r.body # JsonNonObject
                    /\ ("models" \in DOMAIN r.body => r.body.models.type = "list")) =>
                  /\ pc = "returned"
                  /\ ret = IF present THEN listed ELSE listed \o <<"domain_aware">>
            /\ RaisesRequestException(r, lib) =>
                  /\ pc = "returned"
                  /\ ret = <<"synthetic", "domain_aware">>

C5_Witness ==
    /\ op = "get_available_models" /\ pc = "returned"
    /\ got[1].kind = "json" /\ "models" \in DOMAIN got[1].body
    /\ got[1].body.models.type = "list"
    /\ got[1].body.models.items = <<"synthetic", "hybrid">>
    /\ ret = <<"synthetic", "hybrid", "domain_aware">>

(***************************************************************************)
(* Claims about the store operations, checked under SpecTables.            *)
(***************************************************************************)
\* The incidents the store held when the call read it (none on a failed read).
Held == IF store.read = "ok" THEN store.records ELSE <<>>

\* The label the data model gives a sentiment code.
ExpectedLabel(sentiment) ==
    IF sentiment = Some(1) THEN "positive"
    ELSE IF sentiment = Some(0) THEN "neutral"
    ELSE IF sentiment = Some(-1) THEN "negative"
    ELSE "not analyzed"

\* The number of days of a calendar month.
CalendarDays(y, m) ==
    CASE m \in {1, 3, 5, 7, 8, 10, 12} -> 31
      [] m \in {4, 6, 9, 11} -> 30
      [] m = 2 /\ (y % 400 = 0 \/ (y % 4 = 0 /\ y % 100 # 0)) -> 29
      [] OTHER -> 28

MonthCall == op = "get_sentiment_by_day_of_month" /\ pc = "returned"
AskedMonth == IF args.month = None THEN now[1].month ELSE args.month[1]
AskedYear == IF args.year = None THEN now[1].year ELSE args.year[1]

InAskedMonth(i) ==
    Held[i].timestamp.month = AskedMonth /\ Held[i].timestamp.year = AskedYear

Matching == {i \in 1..Len(Held) : InAskedMonth(i)}

FullMonthTable ==
    /\ Len(ret.rows) = CalendarDays(AskedYear, AskedMonth)
    /\ \A d \in 1..Len(ret.rows) :
          /\ ret.rows[d].day = d
          /\ ret.rows[d].positive >= 0
          /\ ret.rows[d].neutral >= 0
          /\ ret.rows[d].negative >= 0

\* C6 as stated: for every month and year the monthly table has exactly N rows
\* (N the days of the month), days 1..N ascending, counts non-negative, even
\* when the incident set is empty or covers only some of the days.
C6_AlwaysFullMonth == MonthCall /\ store.read = "ok" => FullMonthTable

\* C6 amended: the table has the N rows, days 1..N ascending with non-negative
\* counts, whenever at least one incident of the store falls in the requested
\* month and year; when none does it has no rows.
C6_FullMonthWhenMatched ==
    MonthCall =>
        /\ Matching # {} => FullMonthTable
        /\ Matching = {} => ret.rows = <<>>

C6_Witness ==
    /\ MonthCall /\ AskedMonth = 2 /\ AskedYear = 2024
    /\ Cardinality(Matching) = 1
    /\ Len(ret.rows) = 29
    /\ ret.rows[29].day = 29

\* C7: when an incident falls in the requested month and year, row d counts,
\* per label positive/neutral/negative, exactly the incidents of that month and
\* year on day d with that label; other months or years and "not analyzed"
\* incidents count nowhere, days without incidents are all 0.
C7_MonthCounts ==
    MonthCall /\ Matching # {} =>
        /\ ret.columns = <<"day", "positive", "neutral", "negative">>
        /\ \A d \in 1..Len(ret.rows) :
              /\ DOMAIN ret.rows[d] = {"day", "positive", "neutral", "negative"}
              /\ \A l \in {"positive", "neutral", "negative"} :
                    ret.rows[d][l] =
                        Cardinality({i \in Matching :
                            /\ Held[i].timestamp.day = ret.rows[d].day
                            /\ ExpectedLabel(Held[i].sentiment) = l})

C7_Witness ==
    /\ MonthCall /\ Len(Held) = 2 /\ Cardinality(Matching) = 1
    /\ \E i \in 1..2 : Held[i].timestamp.month = AskedMonth /\ ~InAskedMonth(i)
    /\ Len(ret.rows) = 28
    /\ ret.rows[28].neutral = 1 /\ ret.rows[28].positive = 0
    /\ ret.rows[27].neutral = 0

\* C8: get_incidents_from_db labels every record of a non-empty result
\* 1 -> positive, 0 -> neutral, -1 -> negative, anything else or null ->
\* "not analyzed"; every row has one of these labels and no row is dropped.
C8_Labels ==
    (op = "get_incidents_from_db" /\ pc = "returned" /\ ret.rows # <<>>) =>
        /\ Len(ret.rows) = Min(args.limit, Len(Held))
        /\ \A i \in 1..Len(ret.rows) :
              /\ ret.rows[i].sentiment = Held[i].sentiment
              /\ ret.rows[i].timestamp = Held[i].timestamp
              /\ ret.rows[i].sentiment_label = ExpectedLabel(Held[i].sentiment)
              /\ ret.rows[i].sentiment_label \in
                    {"positive", "neutral", "negative", "not analyzed"}

C8_Witness ==
    /\ op = "get_incidents_from_db" /\ pc = "returned" /\ Len(ret.rows) = 2
    /\ ret.rows[1].sentiment = None /\ ret.rows[1].sentiment_label = "not analyzed"
    /\ ret.rows[2].sentiment = Some(-1) /\ ret.rows[2].sentiment_label = "negative"

\* C9: whenever no incident is found for the requested month and year (store
\* empty or holding other months only) the result is a table with no rows and
\* exactly the columns day, positive, neutral, negative.
C9_EmptyMonthShape ==
    MonthCall /\ store.read = "ok" /\ Matching = {} =>
        ret = [columns |-> <<"day", "positive", "neutral", "negative">>, rows |-> <<>>]

OverTimeCall == op = "get_sentiment_over_time" /\ pc = "returned"

\* Incident i is on or after today - days.
InWindow(i) ==
    ToOrdinal(DateOf(Held[i].timestamp)) >= ToOrdinal(now[1]) - args.days

Windowed == {i \in 1..Len(Held) : InWindow(i)}

RowTotal(row) == row.positive + row.neutral + row.negative + row["not analyzed"]

RECURSIVE TableTotal(_)
TableTotal(rows) ==
    IF rows = <<>> THEN 0 ELSE RowTotal(rows[1]) + TableTotal(Tail(rows))

\* C10: for a non-empty incident set get_sentiment_over_time(days) has exactly
\* one row per distinct date >= today - days among the incidents, each with a
\* count per label (positive, neutral, negative, not analyzed) equal to the
\* incidents of that date with that label, so the counts total the incidents
\* in the window.
C10_OverTimeRows ==
    OverTimeCall /\ Held # <<>> =>
        /\ {ret.rows[k].date : k \in 1..Len(ret.rows)}
               = {DateOf(Held[i].timestamp) : i \in Windowed}
        /\ \A j, k \in 1..Len(ret.rows) : ret.rows[j].date = ret.rows[k].date => j = k
        /\ \A k \in 1..Len(ret.rows) :
              \A l \in {"positive", "neutral", "negative", "not analyzed"} :
                  ret.rows[k][l] =
                      Cardinality({i \in Windowed :
                          /\ DateOf(Held[i].timestamp) = ret.rows[k].date
                          /\ ExpectedLabel(Held[i].sentiment) = l})
        /\ TableTotal(ret.rows) = Cardinality(Windowed)

C10_Witness ==
    /\ OverTimeCall /\ Len(Held) = 2 /\ Cardinality(Windowed) = 1
    /\ args.days = 1
    /\ Len(ret.rows) = 1
    /\ ToOrdinal(ret.rows[1].date) = ToOrdinal(now[1]) - 1
    /\ ret.rows[1]["not analyzed"] = 1

(***************************************************************************)
(* Claim about every public operation, checked under Spec.                 *)
(***************************************************************************)
\* C4: no error escapes a public operation, whatever the collaborators do.
C4_NoErrorEscapes == pc # "raised"
=============================================================================
